---- MODULE Spec2Model ----
(***************************************************************************)
(* State-machine model of the coinflip helper bot (the complete v4 file,   *)
(* src/unnamed/part_000).  Every async handler is a process that runs      *)
(* synchronously up to its next `await` and is resumed by a later step;    *)
(* between two awaits no other handler runs (single event loop).  The      *)
(* database and the chat platform are external: a query takes effect in a  *)
(* step of its own, before the handler that issued it is resumed.          *)
(***************************************************************************)
EXTENDS Integers, FiniteSets, Bags, TLC

\* ---------------------------------------------------------------- bounds
\* callback queries that pass the identity test in one behaviour
MaxActions == 3
\* pickup notifications delivered per game id (at-least-once delivery)
MaxDeliveries == 2
\* handlers suspended at the same time
MaxInFlight == 2
\* Presenter or Store calls that fail in one behaviour (FaultSpec only); a
\* failed call counts against MaxActions like an accepted callback query
MaxFaults == 1

\* ------------------------------------------------------------- constants
\* two rows of coinflip_sessions: 1 has no opponent_id (unified offer),
\* 2 has opponent_id set at creation (direct challenge)
Sessions == {1, 2}
NoOne == "null"
Users == {"p1", "p2", "p3"}
initiator_id(s) == "p1"
RowOpponent(s) == IF s = 2 THEN "p2" ELSE NoOne
\* Rows are named here by session_id, the key of the Map. The notification
\* carries the row's main_bot_game_id, another column: for row 1 the two ids
\* happen to be equal, for row 2 they are not (3 is no row's session_id).
session_id(s) == s
main_bot_game_id(s) == IF s = 1 THEN 1 ELSE 3

COINFLIP_CHOICE_HEADS == "heads"
COINFLIP_CHOICE_TAILS == "tails"
Choices == {COINFLIP_CHOICE_HEADS, COINFLIP_CHOICE_TAILS}

Actions == {"cf_helper_cancel", "cf_helper_accept_bot", "cf_helper_accept_pvp",
            "cf_helper_accept_direct", "cf_helper_decline_direct",
            "cf_helper_pvb_choice", "cf_helper_pvp_choice"}
Contexts == {"offer", "player_turn", "caller_turn"}
Terminal == {"completed_cancelled", "completed_timeout", "completed_bot_win",
             "completed_p1_win", "completed_p2_win", "completed_error_ui",
             "completed_error"}

VARIABLES
    store,              \* coinflip_sessions rows: status, game_state_json, and who wrote them
    activeHelperGames,  \* keys of the Map activeHelperGames
    opponent_id,        \* session.opponent_id of the in-memory session object
    callerId,           \* session.game_state_json.callerId
    winner,             \* session.game_state_json.winner
    timeoutId,          \* context of the live timer session.timeoutId refers to, or "none"
    stray,              \* live timers no session.timeoutId refers to any more, per context
    phase,              \* the decision point last presented for the session
    rendered,           \* buttons <<action, caller id>> ever shown for the session
    handlers,           \* bag of suspended handler invocations
    accepted,           \* callback queries that passed the identity test so far
    notified,           \* pickup notifications accepted so far, per game id
    writes,             \* finalize status writes executed by the database, per session
    removed,            \* finalize has deleted the session from activeHelperGames
    offers,             \* offer messages sent, per session
    faults              \* Presenter and Store calls that have failed so far

vars == <<store, activeHelperGames, opponent_id, callerId, winner, timeoutId, stray,
          phase, rendered, handlers, accepted, notified, writes, removed, offers,
          faults>>

sessVars == <<opponent_id, callerId, winner>>
timerVars == <<timeoutId, stray>>
ghostVars == <<writes, removed, offers, faults>>

NoVia == [by |-> "none", ph |-> "none", choice |-> "none", landed |-> "none",
          caller |-> NoOne, opp |-> NoOne]
NoGs == [winner |-> NoOne, callerId |-> NoOne]

\* the state after start-up, the main bot having created the rows of `rows`
\* with status pending_pickup. `used` of the MaxActions callback queries and,
\* for the rows of `seen`, one of the MaxDeliveries notifications are taken
\* as spent already: this narrows the exploration, not the program
InitUsing(rows, used, seen) ==
    /\ store = [s \in Sessions |->
                 [status |-> IF s \in rows THEN "pending_pickup" ELSE "absent",
                  gs |-> NoGs, via |-> NoVia]]
    /\ activeHelperGames = {}
    /\ opponent_id = [s \in Sessions |-> NoOne]
    /\ callerId = [s \in Sessions |-> NoOne]
    /\ winner = [s \in Sessions |-> NoOne]
    /\ timeoutId = [s \in Sessions |-> "none"]
    /\ stray = [s \in Sessions |-> [c \in Contexts |-> 0]]
    /\ phase = [s \in Sessions |-> "none"]
    /\ rendered = [s \in Sessions |-> {}]
    /\ handlers = EmptyBag
    /\ accepted = used
    /\ notified = [s \in Sessions |-> IF s \in seen THEN 1 ELSE 0]
    /\ writes = [s \in Sessions |-> 0]
    /\ removed = [s \in Sessions |-> FALSE]
    /\ offers = [s \in Sessions |-> 0]
    /\ faults = 0

InitWith(rows) == InitUsing(rows, 0, {})

\* one game at a time: either the unified offer or the direct challenge
Init == \E s \in Sessions : InitWith({s})

\* ------------------------------------------------------- handler records
Handler(k, s, act, from, choice, param, pc) ==
    [k |-> k, s |-> s, act |-> act, from |-> from, choice |-> choice, param |-> param,
     pc |-> pc, ph |-> "none", des |-> TRUE, fs |-> "none", gs |-> NoGs,
     landed |-> "none", caller |-> NoOne, opp |-> NoOne]

Suspended == BagToSet(handlers)
InFlight == BagCardinality(handlers)
Spawn(h) == handlers' = handlers (+) SetToBag({h})
Move(h, g) == handlers' = (handlers (-) SetToBag({h})) (+) SetToBag({g})
Finish(h) == handlers' = handlers (-) SetToBag({h})

\* ---------------------------------------------------------------- timers
\* setTimeout + assignment to session.timeoutId: the handle the field held
\* before is lost, and the timer it names, when still live, stays armed
ArmTimer(s, ctx) ==
    /\ timeoutId' = [timeoutId EXCEPT ![s] = ctx]
    /\ stray' = IF timeoutId[s] = "none" THEN stray
                ELSE [stray EXCEPT ![s][timeoutId[s]] = @ + 1]

\* a clearTimeout that is not confined to the session of the callback
ClearTimer_AllSessions(s) ==
    /\ timeoutId' = [x \in Sessions |-> "none"]
    /\ UNCHANGED stray

\* if (session.timeoutId) clearTimeout(session.timeoutId)
ClearTimer(s) ==
    /\ timeoutId' = [timeoutId EXCEPT ![s] = "none"]
    /\ UNCHANGED stray

\* ------------------------------------------------ handleNewGameSession
\* a claim without the status condition: WHERE main_bot_game_id = $2
ClaimMatches_AnyStatus(s) == store[s].status \in {"pending_pickup", "in_progress"}

\* WHERE main_bot_game_id = $2 AND status = 'pending_pickup'
ClaimMatches(s) == store[s].status = "pending_pickup"

\* A pickup notification arrives and handleNewGameSession runs up to the
\* claiming UPDATE. Nothing before the UPDATE reads or writes state, so the
\* arrival and the execution of the UPDATE are one step, taken when the
\* database executes it. Here a row comes back.
PickupClaim(s) ==
    /\ store[s].status # "absent"
    /\ notified[s] < MaxDeliveries
    /\ ClaimMatches(s)
    /\ notified' = [notified EXCEPT ![s] = @ + 1]
    /\ store' = [store EXCEPT ![s].status = "in_progress"]
    /\ Spawn(Handler("pickup", s, "pickup", NoOne, "none", NoOne, "claimed"))
    /\ UNCHANGED <<activeHelperGames, sessVars, timerVars, phase, rendered,
                   accepted, ghostVars>>

\* rowCount === 0: ROLLBACK and return
PickupNoRow(s) ==
    /\ store[s].status # "absent"
    /\ notified[s] < MaxDeliveries
    /\ ~ClaimMatches(s)
    /\ notified' = [notified EXCEPT ![s] = @ + 1]
    /\ UNCHANGED <<store, activeHelperGames, sessVars, timerVars, phase, rendered,
                   handlers, accepted, ghostVars>>

\* a dispatch that ignores session.opponent_id and always runs the unified offer
PickupRegister_AlwaysUnified(h) ==
    /\ h.k = "pickup" /\ h.pc = "claimed"
    /\ activeHelperGames' = activeHelperGames \cup {h.s}
    /\ opponent_id' = [opponent_id EXCEPT ![h.s] = RowOpponent(h.s)]
    /\ callerId' = [callerId EXCEPT ![h.s] = NoOne]
    /\ winner' = [winner EXCEPT ![h.s] = NoOne]
    /\ Move(h, [h EXCEPT !.pc = "send", !.act = "unified"])
    /\ UNCHANGED <<store, timerVars, phase, rendered, accepted, notified, ghostVars>>

\* after COMMIT: the row becomes the session object, is put in the Map, and
\* runDirectChallenge / runUnifiedOffer starts sending the offer
PickupRegister(h) ==
    /\ h.k = "pickup" /\ h.pc = "claimed"
    /\ activeHelperGames' = activeHelperGames \cup {h.s}
    /\ opponent_id' = [opponent_id EXCEPT ![h.s] = RowOpponent(h.s)]
    /\ callerId' = [callerId EXCEPT ![h.s] = NoOne]
    /\ winner' = [winner EXCEPT ![h.s] = NoOne]
    /\ Move(h, [h EXCEPT !.pc = "send",
                         !.act = IF RowOpponent(h.s) # NoOne THEN "direct" ELSE "unified"])
    /\ UNCHANGED <<store, timerVars, phase, rendered, accepted, notified, ghostVars>>

OfferButtons(kind) ==
    IF kind = "direct"
    THEN {<<"cf_helper_accept_direct", NoOne>>, <<"cf_helper_decline_direct", NoOne>>,
          <<"cf_helper_cancel", NoOne>>}
    ELSE {<<"cf_helper_accept_bot", NoOne>>, <<"cf_helper_accept_pvp", NoOne>>,
          <<"cf_helper_cancel", NoOne>>}

\* safeSendMessage returned the message: arm the offer timer, set the Map
\* entry, start saving game_state_json
OfferSent(h) ==
    /\ h.k = "pickup" /\ h.pc = "send"
    /\ ArmTimer(h.s, "offer")
    /\ activeHelperGames' = activeHelperGames \cup {h.s}
    /\ phase' = [phase EXCEPT ![h.s] = IF h.act = "direct" THEN "offer_direct" ELSE "offer_unified"]
    /\ rendered' = [rendered EXCEPT ![h.s] = @ \cup OfferButtons(h.act)]
    /\ offers' = [offers EXCEPT ![h.s] = @ + 1]
    /\ Move(h, [h EXCEPT !.pc = "save_gs",
                         !.gs = [winner |-> winner[h.s], callerId |-> callerId[h.s]]])
    /\ UNCHANGED <<store, sessVars, accepted, notified, writes, removed, faults>>

\* UPDATE coinflip_sessions SET game_state_json = $1 executes; the handler returns
OfferSaved(h) ==
    /\ h.k = "pickup" /\ h.pc = "save_gs"
    /\ store' = [store EXCEPT ![h.s].gs = h.gs]
    /\ Finish(h)
    /\ UNCHANGED <<activeHelperGames, sessVars, timerVars, phase, rendered,
                   accepted, notified, ghostVars>>

\* --------------------------------------------------- bot.on('callback_query')
\* The designation the handlers are held to (it is not in the code, which
\* tests identities per action and never per phase): the identities that may
\* trigger `act` in phase `ph`; for an action the phase does not offer, the
\* identities the phase designates for any of its actions. Only the history
\* field `des` of a handler record reads it.
Designated(s, ph, act) ==
    CASE ph = "offer_unified" ->
           IF act \in {"cf_helper_cancel", "cf_helper_accept_bot"} THEN {initiator_id(s)}
           ELSE IF act = "cf_helper_accept_pvp" THEN Users \ {initiator_id(s)}
           ELSE Users
      [] ph = "offer_direct" ->
           IF act = "cf_helper_cancel" THEN {initiator_id(s)}
           ELSE IF act \in {"cf_helper_accept_direct", "cf_helper_decline_direct"}
                THEN {opponent_id[s]}
           ELSE {initiator_id(s), opponent_id[s]}
      [] ph = "awaiting_pvb_choice" -> {initiator_id(s)}
      [] ph = "awaiting_pvp_call" -> {callerId[s]}
      [] OTHER -> {}

\* the identity test of each case of the switch
Authorized(s, act, from, param) ==
    CASE act = "cf_helper_cancel" -> from = initiator_id(s)
      [] act = "cf_helper_accept_bot" -> from = initiator_id(s)
      [] act = "cf_helper_accept_pvp" -> from # initiator_id(s)
      [] act = "cf_helper_accept_direct" -> from = opponent_id[s]
      [] act = "cf_helper_decline_direct" -> from = opponent_id[s]
      [] act = "cf_helper_pvb_choice" -> from = initiator_id(s)
      [] act = "cf_helper_pvp_choice" -> from = param

\* a user presses a button that has been shown for the session; callback_data
\* carries the action, the session id and the button's parameters
ChoicesOf(act) ==
    IF act \in {"cf_helper_pvb_choice", "cf_helper_pvp_choice"} THEN Choices ELSE {"none"}

\* a user presses a button that has been shown for the session
Pressed(s, act, from, param) ==
    /\ <<act, param>> \in rendered[s]
    /\ from \in Users

\* activeHelperGames.get(sessionId) is undefined: answer "no longer active"
\* and return
CallbackInactive(s, act, from, param) ==
    /\ Pressed(s, act, from, param)
    /\ s \notin activeHelperGames
    /\ UNCHANGED vars

\* session found, timer cleared, identity test passed: the handler suspends
\* at answerCallbackQuery (accept_pvp has already set session.opponent_id).
\* cancel and decline_direct touch no state between that await and the
\* editMessageText that follows, so they suspend once, at "edit".
CallbackAccepted(s, act, from, choice, param) ==
    /\ Pressed(s, act, from, param)
    /\ choice \in ChoicesOf(act)
    /\ accepted + faults < MaxActions
    /\ InFlight < MaxInFlight
    /\ s \in activeHelperGames
    /\ Authorized(s, act, from, param)
    /\ ClearTimer(s)
    /\ opponent_id' = IF act = "cf_helper_accept_pvp"
                      THEN [opponent_id EXCEPT ![s] = from] ELSE opponent_id
    /\ Spawn(IF act \in {"cf_helper_cancel", "cf_helper_decline_direct"}
             THEN [Handler("cb", s, act, from, choice, param, "edit")
                     EXCEPT !.ph = phase[s], !.des = from \in Designated(s, phase[s], act),
                            !.fs = "completed_cancelled"]
             ELSE [Handler("cb", s, act, from, choice, param, "answer")
                     EXCEPT !.ph = phase[s], !.des = from \in Designated(s, phase[s], act)])
    /\ accepted' = accepted + 1
    /\ UNCHANGED <<store, activeHelperGames, callerId, winner, phase, rendered,
                   notified, ghostVars>>

\* session found, timer cleared, identity test failed: the else branch answers
\* the callback with the denial and the handler returns. Nothing after that
\* await reads or writes state, so the whole handler is this one step. (The
\* pvb_choice case has no else branch: the handler returns without answering.)
CallbackDenied(s, act, from, param) ==
    /\ Pressed(s, act, from, param)
    /\ s \in activeHelperGames
    /\ ~Authorized(s, act, from, param)
    /\ ClearTimer(s)
    /\ UNCHANGED <<store, activeHelperGames, sessVars, phase, rendered, handlers,
                   accepted, notified, ghostVars>>

\* runCoinflipPvB up to its await: mark the game state, set the Map entry,
\* start editing the message to the heads/tails keyboard
runCoinflipPvB(h) ==
    /\ h.k = "cb" /\ h.pc = "answer"
    /\ h.act = "cf_helper_accept_bot"
    /\ phase' = [phase EXCEPT ![h.s] = "awaiting_pvb_choice"]
    /\ activeHelperGames' = activeHelperGames \cup {h.s}
    /\ Move(h, [h EXCEPT !.pc = "edit_pvb"])
    /\ UNCHANGED <<store, sessVars, timerVars, rendered, accepted, notified, ghostVars>>

\* the edit returned: arm the player_turn timer
PvBShown(h) ==
    /\ h.k = "cb" /\ h.pc = "edit_pvb"
    /\ rendered' = [rendered EXCEPT ![h.s] = @ \cup {<<"cf_helper_pvb_choice", NoOne>>}]
    /\ ArmTimer(h.s, "player_turn")
    /\ Finish(h)
    /\ UNCHANGED <<store, activeHelperGames, sessVars, phase, accepted, notified, ghostVars>>

\* const caller = p1IsCaller ? initiator : opponent
Caller(s, p1IsCaller) == IF p1IsCaller THEN initiator_id(s) ELSE opponent_id[s]

\* runCoinflipPvP up to its await: pick the caller, record callerId, start
\* editing the message to the caller's keyboard
runCoinflipPvP(h) ==
    /\ h.k = "cb" /\ h.pc = "answer"
    /\ h.act \in {"cf_helper_accept_pvp", "cf_helper_accept_direct"}
    /\ \E p1IsCaller \in BOOLEAN :
         /\ callerId' = [callerId EXCEPT ![h.s] = Caller(h.s, p1IsCaller)]
         /\ Move(h, [h EXCEPT !.pc = "edit_pvp", !.caller = Caller(h.s, p1IsCaller)])
    /\ phase' = [phase EXCEPT ![h.s] = "awaiting_pvp_call"]
    /\ UNCHANGED <<store, activeHelperGames, opponent_id, winner, timerVars, rendered,
                   accepted, notified, ghostVars>>

\* the edit returned: arm the caller_turn timer
PvPShown(h) ==
    /\ h.k = "cb" /\ h.pc = "edit_pvp"
    /\ rendered' = [rendered EXCEPT ![h.s] = @ \cup {<<"cf_helper_pvp_choice", h.caller>>}]
    /\ ArmTimer(h.s, "caller_turn")
    /\ Finish(h)
    /\ UNCHANGED <<store, activeHelperGames, sessVars, phase, accepted, notified, ghostVars>>

\* ------------------------------------------- runCoinflipAnimationAndFinalize
\* a choice after answerCallbackQuery: clear the timer and start the animation.
\* The eight frame edits and sleeps read and write no state, so the loop is one
\* suspension.
StartAnimation(h) ==
    /\ h.k = "cb" /\ h.pc = "answer"
    /\ h.act \in {"cf_helper_pvb_choice", "cf_helper_pvp_choice"}
    /\ ClearTimer(h.s)
    /\ phase' = [phase EXCEPT ![h.s] = "resolving"]
    /\ Move(h, [h EXCEPT !.pc = "anim"])
    /\ UNCHANGED <<store, activeHelperGames, sessVars, rendered, accepted, notified, ghostVars>>

\* const playerWins = playerChoice === actualFlipOutcome
playerWins(playerChoice, actualFlipOutcome) == playerChoice = actualFlipOutcome

\* winnerId of the PvP and PvB branches
winnerId(s, isPvP, wins) ==
    IF isPvP
    THEN IF wins THEN callerId[s]
         ELSE IF callerId[s] = initiator_id(s) THEN opponent_id[s] ELSE initiator_id(s)
    ELSE IF wins THEN initiator_id(s) ELSE "bot"

\* finalStatus of the PvP and PvB branches
finalStatus(s, isPvP, wins) ==
    IF isPvP
    THEN IF winnerId(s, isPvP, wins) = initiator_id(s)
         THEN "completed_p1_win" ELSE "completed_p2_win"
    ELSE IF wins THEN "completed_p1_win" ELSE "completed_bot_win"

\* the animation is over: flip, set gameState.winner, start the final edit
Flip(h) ==
    /\ h.k = "cb" /\ h.pc = "anim"
    /\ \E actualFlipOutcome \in Choices :
         LET isPvP == h.act = "cf_helper_pvp_choice"
             wins == playerWins(h.choice, actualFlipOutcome)
         IN /\ winner' = [winner EXCEPT ![h.s] = winnerId(h.s, isPvP, wins)]
            /\ Move(h, [h EXCEPT !.pc = "edit", !.landed = actualFlipOutcome,
                                 !.fs = finalStatus(h.s, isPvP, wins),
                                 !.caller = callerId[h.s], !.opp = opponent_id[h.s]])
    /\ UNCHANGED <<store, activeHelperGames, opponent_id, callerId, timerVars, phase,
                   rendered, accepted, notified, ghostVars>>

\* ------------------------------------------------------ handleGameTimeout
\* an offer branch with the status of a cancellation
TimeoutStatus_OfferCancelled(s, context) ==
    IF context = "offer" THEN "completed_cancelled"
    ELSE IF context = "player_turn" THEN "completed_bot_win"
    ELSE IF callerId[s] = initiator_id(s) THEN "completed_p2_win" ELSE "completed_p1_win"

\* a caller_turn branch with its two statuses exchanged
TimeoutStatus_CreditsCaller(s, context) ==
    IF context = "offer" THEN "completed_timeout"
    ELSE IF context = "player_turn" THEN "completed_bot_win"
    ELSE IF callerId[s] = initiator_id(s) THEN "completed_p1_win" ELSE "completed_p2_win"

\* a player_turn branch that falls through to the default status
TimeoutStatus_PlayerTurnDefault(s, context) ==
    IF context \in {"offer", "player_turn"} THEN "completed_timeout"
    ELSE IF callerId[s] = initiator_id(s) THEN "completed_p2_win" ELSE "completed_p1_win"

\* finalStatus by context; caller_turn reads gameState.callerId
TimeoutStatus(s, context) ==
    IF context = "offer" THEN "completed_timeout"
    ELSE IF context = "player_turn" THEN "completed_bot_win"
    ELSE IF callerId[s] = initiator_id(s) THEN "completed_p2_win" ELSE "completed_p1_win"

TimeoutHandler(s, context) ==
    [Handler("timeout", s, context, NoOne, "none", NoOne, "edit")
       EXCEPT !.fs = TimeoutStatus(s, context), !.caller = callerId[s],
              !.opp = opponent_id[s], !.ph = phase[s]]

\* the timer session.timeoutId names fires
TimerFires(s) ==
    /\ timeoutId[s] # "none"
    /\ InFlight < MaxInFlight
    /\ timeoutId' = [timeoutId EXCEPT ![s] = "none"]
    /\ handlers' = IF s \in activeHelperGames
                   THEN handlers (+) SetToBag({TimeoutHandler(s, timeoutId[s])})
                   ELSE handlers
    /\ UNCHANGED <<store, activeHelperGames, sessVars, stray, phase, rendered,
                   accepted, notified, ghostVars>>

\* a timer whose handle was overwritten fires; the callback clears the
\* timer session.timeoutId names now
StrayTimerFires(s, context) ==
    /\ stray[s][context] > 0
    /\ InFlight < MaxInFlight
    /\ stray' = [stray EXCEPT ![s][context] = @ - 1]
    /\ timeoutId' = IF s \in activeHelperGames
                    THEN [timeoutId EXCEPT ![s] = "none"] ELSE timeoutId
    /\ handlers' = IF s \in activeHelperGames
                   THEN handlers (+) SetToBag({TimeoutHandler(s, context)})
                   ELSE handlers
    /\ UNCHANGED <<store, activeHelperGames, sessVars, phase, rendered,
                   accepted, notified, ghostVars>>

\* ---------------------------------------------- finalizeAndRecordOutcome
\* the closing editMessageText returned: finalizeAndRecordOutcome serialises
\* the game state and issues the UPDATE
FinalizeCall(h) ==
    /\ h.pc = "edit"
    /\ Move(h, [h EXCEPT !.pc = "fin_query",
                         !.gs = [winner |-> winner[h.s], callerId |-> callerId[h.s]]])
    /\ UNCHANGED <<store, activeHelperGames, sessVars, timerVars, phase, rendered,
                   accepted, notified, ghostVars>>

\* the row the UPDATE writes
FinalRow(h) ==
    [status |-> h.fs, gs |-> h.gs,
     via |-> [by |-> h.act, ph |-> h.ph, choice |-> h.choice, landed |-> h.landed,
              caller |-> h.caller, opp |-> h.opp]]

\* the database executes UPDATE ... SET status = $1, game_state_json = $2
FinalizeWrite(h) ==
    /\ h.pc = "fin_query"
    /\ store' = [store EXCEPT ![h.s] = FinalRow(h)]
    /\ writes' = [writes EXCEPT ![h.s] = @ + 1]
    /\ phase' = [phase EXCEPT ![h.s] = "terminal"]
    /\ Move(h, [h EXCEPT !.pc = "fin_reply"])
    /\ UNCHANGED <<activeHelperGames, sessVars, timerVars, rendered, accepted,
                   notified, removed, offers, faults>>

\* a finalize that returns without activeHelperGames.delete
FinalizeDelete_KeepsEntry(h) ==
    /\ h.pc = "fin_reply"
    /\ removed' = [removed EXCEPT ![h.s] = TRUE]
    /\ Finish(h)
    /\ UNCHANGED <<store, activeHelperGames, sessVars, timerVars, phase, rendered,
                   accepted, notified, writes, offers, faults>>

\* the query returned: activeHelperGames.delete(sessionId)
FinalizeDelete(h) ==
    /\ h.pc = "fin_reply"
    /\ activeHelperGames' = activeHelperGames \ {h.s}
    /\ removed' = [removed EXCEPT ![h.s] = TRUE]
    /\ Finish(h)
    /\ UNCHANGED <<store, sessVars, timerVars, phase, rendered, accepted, notified,
                   writes, offers, faults>>

\* ------------------------------------------------- failing external calls
\* a Presenter or Store call may still fail in this behaviour
MayFail == faults < MaxFaults /\ accepted + faults < MaxActions
Failed == faults' = faults + 1 /\ UNCHANGED <<writes, removed, offers>>

\* the object finalizeAndRecordOutcome is given on the error paths: {error: ...}
ErrorGs == NoGs

\* handleNewGameSession throws before a row came back (connect, BEGIN or the
\* claiming UPDATE rejects): control is in the catch block, at ROLLBACK
PickupFails(s) ==
    /\ MayFail /\ Failed
    /\ store[s].status # "absent"
    /\ notified[s] < MaxDeliveries
    /\ InFlight < MaxInFlight
    /\ notified' = [notified EXCEPT ![s] = @ + 1]
    /\ Spawn(Handler("pickup", s, "pickup", NoOne, "none", NoOne, "rollback"))
    /\ UNCHANGED <<store, activeHelperGames, sessVars, timerVars, phase, rendered, accepted>>

\* safeSendMessage caught the error and returned null: the else branch of
\* runUnifiedOffer / runDirectChallenge finalizes with completed_error_ui
SendFails(h) ==
    /\ MayFail /\ Failed
    /\ h.k = "pickup" /\ h.pc = "send"
    /\ Move(h, [h EXCEPT !.pc = "fin_query", !.fs = "completed_error_ui", !.gs = ErrorGs])
    /\ UNCHANGED <<store, activeHelperGames, sessVars, timerVars, phase, rendered,
                   accepted, notified>>

\* the UPDATE of game_state_json rejects: the exception leaves runUnifiedOffer /
\* runDirectChallenge and lands in the catch block of handleNewGameSession
OfferSaveFails(h) ==
    /\ MayFail /\ Failed
    /\ h.k = "pickup" /\ h.pc = "save_gs"
    /\ Move(h, [h EXCEPT !.pc = "rollback"])
    /\ UNCHANGED <<store, activeHelperGames, sessVars, timerVars, phase, rendered,
                   accepted, notified>>

\* ROLLBACK returned: const sessionFromMap = activeHelperGames.get(mainBotGameId);
\* if it is there, finalizeAndRecordOutcome(sessionFromMap.session_id, 'completed_error')
PickupCatch(h) ==
    /\ h.k = "pickup" /\ h.pc = "rollback"
    /\ LET key == main_bot_game_id(h.s)
       IN IF key \in activeHelperGames
          THEN Move(h, [h EXCEPT !.s = key, !.pc = "fin_query",
                                 !.fs = "completed_error", !.gs = ErrorGs])
          ELSE Finish(h)
    /\ UNCHANGED <<store, activeHelperGames, sessVars, timerVars, phase, rendered,
                   accepted, notified, ghostVars>>

\* bot.editMessageText rejects in a callback or timeout handler: nothing
\* catches it, the handler ends there
EditFails(h) ==
    /\ MayFail /\ Failed
    /\ h.k \in {"cb", "timeout"} /\ h.pc \in {"edit_pvb", "edit_pvp", "edit"}
    /\ Finish(h)
    /\ UNCHANGED <<store, activeHelperGames, sessVars, timerVars, phase, rendered,
                   accepted, notified>>

\* the UPDATE of finalizeAndRecordOutcome rejects: the catch block logs, the
\* delete inside the try block is skipped
FinalizeFails(h) ==
    /\ MayFail /\ Failed
    /\ h.pc = "fin_query"
    /\ Finish(h)
    /\ UNCHANGED <<store, activeHelperGames, sessVars, timerVars, phase, rendered,
                   accepted, notified>>

\* ------------------------------------------------------------ transitions
\* a suspended handler is resumed, or the query it waits for is executed
HandlerStep(h) ==
    \/ PickupRegister(h)
    \/ OfferSent(h)
    \/ OfferSaved(h)
    \/ runCoinflipPvB(h)
    \/ PvBShown(h)
    \/ runCoinflipPvP(h)
    \/ PvPShown(h)
    \/ StartAnimation(h)
    \/ Flip(h)
    \/ FinalizeCall(h)
    \/ FinalizeWrite(h)
    \/ FinalizeDelete(h)

Next ==
    \/ \E s \in Sessions : PickupClaim(s)
    \/ \E s \in Sessions : PickupNoRow(s)
    \/ \E s \in Sessions : \E b \in rendered[s], from \in Users :
         CallbackInactive(s, b[1], from, b[2])
    \/ \E s \in Sessions : \E b \in rendered[s], from \in Users :
         CallbackDenied(s, b[1], from, b[2])
    \/ \E s \in Sessions : \E b \in rendered[s], from \in Users :
         \E choice \in ChoicesOf(b[1]) : CallbackAccepted(s, b[1], from, choice, b[2])
    \/ \E s \in Sessions : TimerFires(s)
    \/ \E s \in Sessions, context \in Contexts : StrayTimerFires(s, context)
    \/ \E h \in Suspended : PickupRegister(h)
    \/ \E h \in Suspended : OfferSent(h)
    \/ \E h \in Suspended : OfferSaved(h)
    \/ \E h \in Suspended : runCoinflipPvB(h)
    \/ \E h \in Suspended : PvBShown(h)
    \/ \E h \in Suspended : runCoinflipPvP(h)
    \/ \E h \in Suspended : PvPShown(h)
    \/ \E h \in Suspended : StartAnimation(h)
    \/ \E h \in Suspended : Flip(h)
    \/ \E h \in Suspended : FinalizeCall(h)
    \/ \E h \in Suspended : FinalizeWrite(h)
    \/ \E h \in Suspended : FinalizeDelete(h)

Spec == Init /\ [][Next]_vars

\* the transitions with failing Presenter and Store calls
FaultNext ==
    \/ Next
    \/ \E s \in Sessions : PickupFails(s)
    \/ \E h \in Suspended : SendFails(h)
    \/ \E h \in Suspended : OfferSaveFails(h)
    \/ \E h \in Suspended : PickupCatch(h)
    \/ \E h \in Suspended : EditFails(h)
    \/ \E h \in Suspended : FinalizeFails(h)

FaultSpec == Init /\ [][FaultNext]_vars

FairSpec ==
    /\ Spec
    /\ WF_vars(\E s \in Sessions : TimerFires(s))
    /\ WF_vars(\E s \in Sessions, context \in Contexts : StrayTimerFires(s, context))
    /\ WF_vars(\E h \in Suspended : HandlerStep(h))

\* ------------------------------------------------------------ properties
HandlersOf(s) == {h \in Suspended : h.s = s}
Quiescent(s) == HandlersOf(s) = {}
Waiting == {"offer_unified", "offer_direct", "awaiting_pvb_choice", "awaiting_pvp_call"}

\* C1: for every session the database executes at most one finalize status
\* write, whatever the interleaving of callback handlers and timeout callbacks.
C1_OneTerminalWrite == \A s \in Sessions : writes[s] <= 1

\* C2: once finalize has deleted a session from activeHelperGames, a callback
\* query or a timer callback that arrives for it afterwards changes nothing:
\* the session object, its timers, the Map and the row stay as they are and no
\* handler is started.
C2_RemovedSessionUntouched ==
    [][\A s \in Sessions :
         (/\ removed[s]
          /\ \/ \E b \in rendered[s], from \in Users :
                  \/ CallbackInactive(s, b[1], from, b[2])
                  \/ CallbackDenied(s, b[1], from, b[2])
                  \/ \E choice \in ChoicesOf(b[1]) :
                       CallbackAccepted(s, b[1], from, choice, b[2])
             \/ TimerFires(s)
             \/ \E context \in Contexts : StrayTimerFires(s, context))
         => /\ UNCHANGED <<store, activeHelperGames, opponent_id, callerId, winner>>
            /\ handlers' = handlers
            /\ \A t \in Sessions : timeoutId'[t] # timeoutId[t] => t = s /\ TimerFires(s)
       ]_vars

\* C3: a handler started by a user the state diagram does not designate for
\* the session's phase changes neither the phase nor the row's status, nor
\* opponent_id, callerId or the row.
C3_UndesignatedChangesNothing ==
    [][/\ \A h \in Suspended :
            (h.k = "cb" /\ ~h.des /\ HandlerStep(h))
            => UNCHANGED <<phase, store, opponent_id, callerId>>
       /\ \A s \in Sessions : \A b \in rendered[s], from \in Users :
            \A choice \in ChoicesOf(b[1]) :
              (/\ from \notin Designated(s, phase[s], b[1])
               /\ CallbackAccepted(s, b[1], from, choice, b[2]))
              => UNCHANGED <<phase, store, opponent_id, callerId>>
      ]_vars

\* C4: when a callback is denied on a session that waits with a live timer,
\* that timer is live again when the handler returns.
C4_DenialRestoresTimer ==
    [][\A s \in Sessions : \A b \in rendered[s], from \in Users :
         (/\ phase[s] \in Waiting
          /\ timeoutId[s] # "none"
          /\ CallbackDenied(s, b[1], from, b[2]))
         => timeoutId'[s] = timeoutId[s]
      ]_vars

\* C5: a session in activeHelperGames is eventually finalized (terminal
\* status in its row) and out of activeHelperGames, given that timers fire
\* and suspended handlers are resumed.
C5_EventuallyFinalized ==
    \A s \in Sessions :
      (s \in activeHelperGames)
        ~> (s \notin activeHelperGames /\ store[s].status \in Terminal)

\* the winner a resolution's own flip decides (via: its choice, the side
\* that landed, the caller and opponent it read)
FlipWinner(s, via) ==
    IF via.by = "cf_helper_pvb_choice"
    THEN IF via.choice = via.landed THEN initiator_id(s) ELSE "bot"
    ELSE IF via.choice = via.landed THEN via.caller
         ELSE IF via.caller = initiator_id(s) THEN via.opp ELSE initiator_id(s)

\* the status that winner stands for
FlipRowStatus(s, via) ==
    IF via.by = "cf_helper_pvb_choice"
    THEN IF via.choice = via.landed THEN "completed_p1_win" ELSE "completed_bot_win"
    ELSE IF FlipWinner(s, via) = initiator_id(s)
         THEN "completed_p1_win" ELSE "completed_p2_win"

\* C6: the row a resolution hands to finalizeAndRecordOutcome follows that resolution's flip: with
\* playerWins == (choice = landed side), PvB persists completed_p1_win and
\* winner = initiator when playerWins, completed_bot_win and winner = "bot"
\* otherwise; PvP persists as winner the caller when playerWins and the other
\* player otherwise, with completed_p1_win iff that winner is the initiator.
C6_WinnerFollowsFlip ==
    \A s \in Sessions : \A h \in HandlersOf(s) :
      (/\ h.pc \in {"fin_query", "fin_reply"}
       /\ h.act \in {"cf_helper_pvb_choice", "cf_helper_pvp_choice"})
      => /\ FinalRow(h).status = FlipRowStatus(s, FinalRow(h).via)
         /\ FinalRow(h).gs.winner = FlipWinner(s, FinalRow(h).via)

\* C7: a row written by the caller_turn timeout of a session that waited in
\* awaiting_pvp_call credits the non-caller: completed_p2_win when the callerId
\* the timeout read is the initiator, completed_p1_win otherwise.
C7_CallerTimeoutCreditsNonCaller ==
    \A s \in Sessions :
      (store[s].via.by = "caller_turn" /\ store[s].via.ph = "awaiting_pvp_call")
      => store[s].status = IF store[s].via.caller = initiator_id(s)
                           THEN "completed_p2_win" ELSE "completed_p1_win"

C7_Witness ==
    \E s \in Sessions :
      /\ store[s].via.by = "caller_turn" /\ store[s].via.ph = "awaiting_pvp_call"
      /\ store[s].via.caller = opponent_id[s] /\ opponent_id[s] \in Users
      /\ store[s].status = "completed_p1_win"
      /\ s \notin activeHelperGames

\* C8: a row written by the player_turn timeout of a session that waited in
\* awaiting_pvb_choice has status completed_bot_win.
C8_PlayerTimeoutBotWins ==
    \A s \in Sessions :
      (store[s].via.by = "player_turn" /\ store[s].via.ph = "awaiting_pvb_choice")
      => store[s].status = "completed_bot_win"

C8_Witness ==
    \E s \in Sessions :
      /\ store[s].via.by = "player_turn" /\ store[s].via.ph = "awaiting_pvb_choice"
      /\ store[s].status = "completed_bot_win"
      /\ s \notin activeHelperGames

\* pickup handlers suspended for the session
PickupsInFlight(s) ==
    LET P == {h \in Suspended : h.k = "pickup" /\ h.s = s}
    IN IF P = {} THEN 0 ELSE Cardinality(P) + Cardinality({h \in P : CopiesIn(h, handlers) > 1})

\* C9: however often a pickup notification is delivered again, one session
\* object is created and one offer is sent for the row, and the row does not
\* go back to pending_pickup.
C9_DuplicatePickupNoOp ==
    \A s \in Sessions :
      /\ offers[s] <= 1
      /\ PickupsInFlight(s) <= 1
      /\ (offers[s] = 1 /\ PickupsInFlight(s) = 1)
           => \A h \in Suspended : (h.k = "pickup" /\ h.s = s) => h.pc = "save_gs"
      /\ notified[s] >= 1 => store[s].status # "pending_pickup"

C9_Witness ==
    \E s \in Sessions :
      /\ notified[s] = 2
      /\ offers[s] = 1
      /\ store[s].status = "in_progress"
      /\ s \in activeHelperGames
      /\ timeoutId[s] = "offer"
      /\ Quiescent(s)

\* C10: whenever no handler of a session is suspended, the session is in
\* activeHelperGames if and only if its row is in_progress and no terminal
\* status has been written to it.
C10_RegistryIffInProgress ==
    \A s \in Sessions :
      Quiescent(s) =>
        (s \in activeHelperGames <=> (store[s].status = "in_progress" /\ writes[s] = 0))

\* timers of a session that are armed and have neither fired nor been cleared
LiveTimers(s) ==
    (IF timeoutId[s] = "none" THEN 0 ELSE 1)
      + stray[s]["offer"] + stray[s]["player_turn"] + stray[s]["caller_turn"]

\* C11: in every reachable state a session has at most one live timer.
C11_OneLiveTimer == \A s \in Sessions : LiveTimers(s) <= 1

\* C12: once session.opponent_id has a value, no step changes it.
C12_OpponentSetOnce ==
    [][\A s \in Sessions :
         opponent_id[s] # NoOne => opponent_id'[s] = opponent_id[s]]_vars

\* the arrows of the state diagram, and the entry into an offer phase
Arrows ==
    {<<"none", "offer_unified">>, <<"none", "offer_direct">>,
     <<"offer_unified", "awaiting_pvb_choice">>, <<"offer_unified", "awaiting_pvp_call">>,
     <<"offer_unified", "terminal">>,
     <<"offer_direct", "awaiting_pvp_call">>, <<"offer_direct", "terminal">>,
     <<"awaiting_pvb_choice", "resolving">>, <<"awaiting_pvb_choice", "terminal">>,
     <<"awaiting_pvp_call", "resolving">>, <<"awaiting_pvp_call", "terminal">>,
     <<"resolving", "terminal">>}

\* the steps that present a decision point, start the resolution or persist
\* a terminal status
Enters(h) ==
    \/ OfferSent(h) \/ runCoinflipPvB(h) \/ runCoinflipPvP(h)
    \/ StartAnimation(h) \/ FinalizeWrite(h)

\* C13: every step that puts a session into a phase follows an arrow of the
\* state diagram from the phase the session is in; so no phase is entered a
\* second time, and a flow the current phase does not offer is not started.
C13_PhaseFollowsDiagram ==
    [][\A s \in Sessions :
         (\/ phase'[s] # phase[s]
          \/ \E h \in Suspended : h.s = s /\ Enters(h))
         => <<phase[s], phase'[s]>> \in Arrows
      ]_vars

\* C17: when finalize has persisted a status and removed the session, a
\* further finalize UPDATE for the same session leaves the row's status and
\* game_state_json as they were.
C17_FinalizeIdempotent ==
    [][\A h \in Suspended :
         (removed[h.s] /\ writes[h.s] >= 1 /\ FinalizeWrite(h))
         => /\ store'[h.s].status = store[h.s].status
            /\ store'[h.s].gs = store[h.s].gs
      ]_vars

\* C14: when the UPDATE inside finalizeAndRecordOutcome fails, the session is
\* out of activeHelperGames when finalize returns.
C14_EvictedOnStoreFailure ==
    [][\A h \in Suspended : FinalizeFails(h) => h.s \notin activeHelperGames']_vars

\* C15: when the sending of the offer or an editMessageText of a callback or
\* timeout handler fails, the handler goes on to finalize the session with
\* completed_error_ui.
C15_PresenterFailureFinalizes ==
    [][\A h \in Suspended :
         (SendFails(h) \/ EditFails(h))
         => \E g \in BagToSet(handlers') :
              g.s = h.s /\ g.pc = "fin_query" /\ g.fs = "completed_error_ui"
      ]_vars

\* C16: when pickup setup throws after the session was claimed and put into
\* activeHelperGames, the catch block finalizes that session with
\* completed_error; when it throws with no session in the Map under either
\* id, the handler ends without a write.
C16_SetupErrorRecorded ==
    [][\A h \in Suspended :
         PickupCatch(h)
         => /\ (h.act \in {"direct", "unified"} /\ h.s \in activeHelperGames)
               => \E g \in BagToSet(handlers') :
                    g.s = h.s /\ g.pc = "fin_query" /\ g.fs = "completed_error"
            /\ (h.act = "pickup" /\ h.s \notin activeHelperGames
                                /\ main_bot_game_id(h.s) \notin activeHelperGames)
               => handlers' = handlers (-) SetToBag({h})
      ]_vars

Offers == {"offer_unified", "offer_direct"}

\* C18: the handler of a cancel by the initiator in an offer phase, and of a
\* decline by the challenged opponent in offer_direct, goes through the closing
\* edit to finalize, persists completed_cancelled, and has the session out of
\* activeHelperGames when it returns; the handler of an accept by the
\* challenged opponent in offer_direct puts the session in awaiting_pvp_call.
C18_CancelDeclineAccept ==
    [][\A h \in Suspended :
         (h.k = "cb" /\ h.des /\ h.ph \in Offers)
         => /\ h.act \in {"cf_helper_cancel", "cf_helper_decline_direct"}
               => /\ h.pc \in {"edit", "fin_query", "fin_reply"}
                  /\ h.fs = "completed_cancelled"
                  /\ FinalizeWrite(h) => store'[h.s].status = "completed_cancelled"
                  /\ FinalizeDelete(h)
                       => h.s \notin activeHelperGames' /\ writes[h.s] >= 1
            /\ (h.act = "cf_helper_accept_direct" /\ h.pc = "answer" /\ HandlerStep(h))
               => phase'[h.s] = "awaiting_pvp_call"
      ]_vars

C18_Witness ==
    \E s \in Sessions :
      /\ store[s].via.by = "cf_helper_decline_direct"
      /\ store[s].via.ph = "offer_direct"
      /\ store[s].status = "completed_cancelled"
      /\ removed[s] /\ s \notin activeHelperGames
      /\ Quiescent(s)

\* C19: when no callback query has been accepted and the offer timer's
\* handler has written the row, the row has completed_timeout, and once that
\* handler has returned the session is out of activeHelperGames.
C19_OfferTimeoutPersists ==
    \A s \in Sessions :
      accepted = 0 =>
        /\ writes[s] >= 1
             => /\ store[s].status = "completed_timeout"
                /\ store[s].via.by = "offer" /\ store[s].via.ph \in Offers
        /\ removed[s] => s \notin activeHelperGames /\ writes[s] = 1

C19_Witness ==
    \E s \in Sessions :
      /\ accepted = 0 /\ removed[s]
      /\ store[s].status = "completed_timeout" /\ store[s].via.ph = "offer_unified"
      /\ s \notin activeHelperGames /\ Quiescent(s)

\* C20: a claimed row gets one offer: the session is in activeHelperGames
\* when the offer is being sent, and the offer is the direct challenge exactly
\* when the row has an opponent_id, the unified offer otherwise.
C20_DispatchByOpponent ==
    \A s \in Sessions :
      /\ offers[s] <= 1
      /\ \A h \in Suspended :
           (h.k = "pickup" /\ h.s = s /\ h.pc = "send")
           => /\ s \in activeHelperGames /\ offers[s] = 0
              /\ h.act = "direct" <=> RowOpponent(s) # NoOne
      /\ offers[s] = 1
           => /\ <<"cf_helper_accept_direct", NoOne>> \in rendered[s] <=> RowOpponent(s) # NoOne
              /\ <<"cf_helper_accept_bot", NoOne>> \in rendered[s] <=> RowOpponent(s) = NoOne
              /\ phase[s] = "offer_direct" => RowOpponent(s) # NoOne

C20_Witness ==
    \E s \in Sessions :
      /\ RowOpponent(s) # NoOne /\ offers[s] = 1
      /\ <<"cf_helper_accept_direct", NoOne>> \in rendered[s]
      /\ phase[s] = "offer_direct" /\ s \in activeHelperGames

ChoiceActs == {"cf_helper_pvb_choice", "cf_helper_pvp_choice"}

\* C21: a callback query other than a choice that is accepted after the
\* animation of the session has started neither writes a status to the row nor
\* starts another flow on the session.
C21_ResolutionNotAborted ==
    [][\A h \in Suspended :
         (h.k = "cb" /\ h.ph = "resolving" /\ h.act \notin ChoiceActs)
         => ~FinalizeWrite(h) /\ ~runCoinflipPvB(h) /\ ~runCoinflipPvP(h)
      ]_vars

\* C22: a session is resolved once: a choice handler starts the animation only
\* on a session no animation was started on, and flips only when no flip has
\* set gameState.winner yet.
C22_SingleFlip ==
    [][\A h \in Suspended :
         /\ StartAnimation(h) => phase[h.s] \notin {"resolving", "terminal"}
         /\ Flip(h) => winner[h.s] = NoOne
      ]_vars

\* C23: while a callback handler of a session is suspended, a further callback
\* query for that session is not admitted: it changes no session field, no
\* timer and no row, and starts no handler.
C23_SecondActionNoEffect ==
    [][\A s \in Sessions :
         (\E g \in HandlersOf(s) : g.k = "cb")
         => \A b \in rendered[s], from \in Users :
              (\/ CallbackDenied(s, b[1], from, b[2])
               \/ \E choice \in ChoicesOf(b[1]) :
                    CallbackAccepted(s, b[1], from, choice, b[2]))
              => UNCHANGED <<store, activeHelperGames, sessVars, timerVars, handlers>>
      ]_vars

\* C24: no timeout callback is in finalizeAndRecordOutcome for a session while
\* a callback handler of that session is between receipt and completion.
C24_NoTimeoutDuringAction ==
    \A s \in Sessions :
      ~ /\ \E h \in HandlersOf(s) : h.k = "timeout" /\ h.pc \in {"fin_query", "fin_reply"}
        /\ \E g \in HandlersOf(s) : g.k = "cb"

\* C25: while a session waits in awaiting_pvp_call, the only callback query
\* admitted is the call of the user recorded in gameState.callerId.
C25_OnlyCallerActs ==
    [][\A s \in Sessions : \A b \in rendered[s], from \in Users :
         \A choice \in ChoicesOf(b[1]) :
           (phase[s] = "awaiting_pvp_call" /\ CallbackAccepted(s, b[1], from, choice, b[2]))
           => (b[1] = "cf_helper_pvp_choice" /\ from = callerId[s])
      ]_vars

\* the waiting phases a timer of the context belongs to
PhasesOf(context) ==
    IF context = "offer" THEN Offers
    ELSE IF context = "player_turn" THEN {"awaiting_pvb_choice"}
    ELSE {"awaiting_pvp_call"}

\* C26: every live timer of a session is the one session.timeoutId names, the
\* session is in activeHelperGames, and the timer's context is that of the
\* waiting phase the session is in.
C26_NoStaleTimer ==
    \A s \in Sessions :
      /\ \A c \in Contexts : stray[s][c] = 0
      /\ timeoutId[s] # "none"
           => s \in activeHelperGames /\ phase[s] \in PhasesOf(timeoutId[s])

\* the heads/tails keyboard of the mode has been put on the session's message
ShownPvB(s) == <<"cf_helper_pvb_choice", NoOne>> \in rendered[s]
ShownPvP(s) == \E b \in rendered[s] : b[1] = "cf_helper_pvp_choice"

\* C27: a session is not taken into both modes, and its row's status fits
\* the mode it was taken into: no completed_bot_win after the PvP keyboard,
\* no completed_p2_win after the PvB keyboard.
C27_StatusFitsMode ==
    \A s \in Sessions :
      /\ ~(ShownPvB(s) /\ ShownPvP(s))
      /\ ShownPvP(s) => store[s].status # "completed_bot_win"
      /\ ShownPvB(s) => store[s].status # "completed_p2_win"

\* C28: a session that has a live timer, or whose offer is being sent or has
\* been sent and may be pressed, is in activeHelperGames.
C28_RegisteredWhileOffered ==
    \A s \in Sessions :
      (\/ LiveTimers(s) > 0
       \/ \E h \in HandlersOf(s) : h.k = "pickup" /\ h.pc = "send")
      => s \in activeHelperGames

\* two games at a time, the unified offer and the direct challenge
TwoInit == InitUsing(Sessions, 1, {2})
TwoSpec == TwoInit /\ [][Next]_vars

\* a step of the program taken for session a: a notification of its row, a
\* callback query carrying its id, one of its timers, a step of a handler
\* running for it
StepOf(a) ==
    \/ PickupClaim(a)
    \/ PickupNoRow(a)
    \/ \E b \in rendered[a], from \in Users :
         \/ CallbackInactive(a, b[1], from, b[2])
         \/ CallbackDenied(a, b[1], from, b[2])
         \/ \E choice \in ChoicesOf(b[1]) : CallbackAccepted(a, b[1], from, choice, b[2])
    \/ TimerFires(a)
    \/ \E context \in Contexts : StrayTimerFires(a, context)
    \/ \E h \in HandlersOf(a) : HandlerStep(h)

\* the Map entry, the session fields, the timers and the row of session b
\* are left as they are
SameFor(b) ==
    /\ (b \in activeHelperGames') = (b \in activeHelperGames)
    /\ opponent_id'[b] = opponent_id[b]
    /\ callerId'[b] = callerId[b]
    /\ winner'[b] = winner[b]
    /\ timeoutId'[b] = timeoutId[b]
    /\ stray'[b] = stray[b]
    /\ store'[b] = store[b]

\* C29: a step taken for session a (a user action, a timer callback, a step
\* of a handler up to and including finalize) leaves the Map entry, the
\* session fields, the timers and the row of every other session unchanged.
C29_SessionsIndependent ==
    [][\A a \in Sessions, b \in Sessions : a # b => (SameFor(b) \/ ~StepOf(a))]_vars

C29_Witness ==
    \E a \in Sessions, b \in Sessions :
      /\ a # b /\ b \in activeHelperGames /\ timeoutId[b] # "none"
      /\ store[a].status \in Terminal /\ store[b].status = "in_progress"
      /\ \E h \in HandlersOf(a) : h.k = "cb" /\ h.pc = "fin_reply"
====
